---- MODULE Spec2Model ----
(***************************************************************************)
(* Model of src/src/kernel.cu: the boids flocking simulation with its      *)
(* three step variants (brute force, scattered uniform grid, coherent      *)
(* uniform grid).                                                          *)
(*                                                                         *)
(* Floats are modelled in fixed point: one world unit is Scale model       *)
(* units, every quotient and square root is rounded to the nearest unit.   *)
(* Device memory is a map from allocation to array; the host pointers      *)
(* dev_pos, dev_pos2,                                                      *)
(* dev_vel1, dev_vel2 name allocations and are exchanged by std::swap.     *)
(* Kernel launches are asynchronous: the host appends a launch (with the   *)
(* pointer values it passes) to the default stream, the device runs the    *)
(* launches of the stream in order, one worker (thread) at a time in any   *)
(* order within a launch.                                                  *)
(***************************************************************************)
EXTENDS Integers, Sequences, FiniteSets, TLC

VARIABLES
    life,       \* "Uninitialized", "Ready", "Stepping", "TornDown"; "Aborting" and
                \* "Exited" once checkCUDAError found an error; "OutOfContract"
                \* once a call was made in a state the lifecycle forbids
    hpc,        \* host position in the running step function: the index of its
                \* next statement (0 between steps)
    stepType,   \* SIMULATION_TYPE of the running step ("NONE" between steps)
    dt,         \* dt of the running step
    stream,     \* launches issued and not yet completed, oldest first
    todo,       \* workers of the launch at the head of the stream still to run
    mem,        \* device memory: allocation -> array
    dev_pos, dev_pos2, dev_vel1, dev_vel2,   \* host pointers (allocation names)
    uninit,     \* what uninitialised / out-of-bounds device memory holds
    history,    \* the step types completed so far (frameCnt = Len(history))
    passes,     \* passes of the running step that have run, in the order they ran
    log,        \* accesses of the kernel that ran last: who read / wrote what
    snap,       \* the agent ids of the exported buffers when the step began
    call,       \* the last operation the host entered and the state it was called in
    frees,      \* allocation -> number of cudaFree calls made on it
    lastError,  \* the launch whose error the runtime holds ("none": cudaSuccess)
    diag        \* the message of the checkCUDAError that reported an error

vars == <<life, hpc, stepType, dt, stream, todo, mem, dev_pos, dev_pos2, dev_vel1,
          dev_vel2, uninit, history, passes, log, snap, call, frees, lastError, diag>>

(***************************************************************************)
(* Bounds of the model.                                                    *)
(***************************************************************************)
NumObjects == 2       \* N passed to initSimulation
MaxSteps == 2         \* stepSimulation calls explored
Scale == 100          \* fixed-point resolution: model units per world unit

(***************************************************************************)
(* Configuration (kernel.cu lines 41-56).  The rule scales are fractions.  *)
(***************************************************************************)
rule1Distance == 5
rule2Distance == 3
rule3Distance == 5
rule1ScaleNum == 1
rule1ScaleDen == 100
rule2ScaleNum == 1
rule2ScaleDen == 10
rule3ScaleNum == 1
rule3ScaleDen == 10
maxSpeed == 1
scene_scale == 100

NAIVE == "NAIVE"
SCATTERED == "SCATTERED"
COHERENT == "COHERENT"
SIMULATION_TYPE == {NAIVE, SCATTERED, COHERENT}

Idx == 0 .. (NumObjects - 1)

(***************************************************************************)
(* Fixed-point float and glm::vec3 arithmetic.                             *)
(***************************************************************************)
Max(a, b) == IF a > b THEN a ELSE b

\* a / b on floats, b > 0, rounded to the nearest model unit
RoundDiv(a, b) ==
    IF a >= 0 THEN (2 * a + b) \div (2 * b) ELSE 0 - ((2 * (0 - a) + b) \div (2 * b))

Vec3(x, y, z) == <<x, y, z>>
ZeroVec == Vec3(0, 0, 0)
\* the vector a division by a zero count yields (0/0 on every component)
NaNVec == <<0, 0, 0, "NaN">>
IsNaN(a) == Len(a) = 4
VAdd(a, b) == IF IsNaN(a) \/ IsNaN(b) THEN NaNVec ELSE [k \in 1..3 |-> a[k] + b[k]]
VSub(a, b) == IF IsNaN(a) \/ IsNaN(b) THEN NaNVec ELSE [k \in 1..3 |-> a[k] - b[k]]
VMulFrac(a, num, den) ==
    IF IsNaN(a) THEN NaNVec ELSE [k \in 1..3 |-> RoundDiv(a[k] * num, den)]
\* v / cnt for a float count: NaN when the count is zero
VDivCnt(a, cnt) ==
    IF IsNaN(a) \/ cnt = 0 THEN NaNVec ELSE [k \in 1..3 |-> RoundDiv(a[k], cnt)]
Dot(a, b) == a[1] * b[1] + a[2] * b[2] + a[3] * b[3]

\* glm::distance(a, b) < r, compared on the squares (r in world units);
\* a comparison with NaN is false
Within(a, b, r) ==
    /\ ~IsNaN(a)
    /\ ~IsNaN(b)
    /\ Dot(VSub(a, b), VSub(a, b)) < (r * Scale) * (r * Scale)

\* the largest r in lo .. hi-1 with r * r <= n, by bisection
RECURSIVE SqrtBetween(_, _, _)
SqrtBetween(n, lo, hi) ==
    IF hi - lo <= 1 THEN lo
    ELSE LET mid == (lo + hi) \div 2
         IN  IF mid * mid <= n THEN SqrtBetween(n, mid, hi)
             ELSE SqrtBetween(n, lo, mid)

\* glm::length(v): the square root rounded to the nearest model unit
Length(v) ==
    LET n == Dot(v, v)
        r == SqrtBetween(n, 0, 46340)
    IN  IF n - r * r > r THEN r + 1 ELSE r

(***************************************************************************)
(* Grid parameters, computed as initSimulation computes them (168-177).    *)
(* gridMinimum is a zero-initialised global that initSimulation lowers by  *)
(* halfGridWidth on every axis.                                            *)
(***************************************************************************)
gridCellWidth == 2 * Max(Max(rule1Distance, rule2Distance), rule3Distance) * Scale
halfSideCount == ((scene_scale * Scale) \div gridCellWidth) + 1
gridSideCount == 2 * halfSideCount
gridCellCount == gridSideCount * gridSideCount * gridSideCount
halfGridWidth == gridCellWidth * halfSideCount
gridMinimum == Vec3(0 - halfGridWidth, 0 - halfGridWidth, 0 - halfGridWidth)

Cells == 0 .. (gridCellCount - 1)

gridIndex3Dto1D(x, y, z, gridResolution) ==
    x + y * gridResolution + z * gridResolution * gridResolution

\* int(clamp((p - gridMin) * inverseCellWidth - 0.5, 0, gridResolution)) on
\* one axis: (p - gridMin) / w - 1/2 = (2 (p - gridMin) - w) / (2 w)
CellCoord(p, gridMin, gridResolution) ==
    LET num == 2 * (p - gridMin) - gridCellWidth
        den == 2 * gridCellWidth
    IN  IF num <= 0 THEN 0
        ELSE IF num >= gridResolution * den THEN gridResolution
        ELSE num \div den

\* the grid coordinate of a position, as kernComputeIndices (374-383) and
\* both grid velocity updaters (433-443, 504-514) compute it
\* clamp keeps a NaN, and the device's float-to-int conversion of NaN is 0
GridPos(myPos, gridMin, gridResolution) ==
    IF IsNaN(myPos) THEN Vec3(0, 0, 0)
    ELSE [k \in 1..3 |-> CellCoord(myPos[k], gridMin[k], gridResolution)]

(***************************************************************************)
(* Device memory.  The vector buffers hold, per index, a record of the     *)
(* value v and of the agent id whose state it is (id is bookkeeping of the *)
(* model: it follows the data through every copy and update).  The two     *)
(* bucket arrays are kept sparse: their domain is the set of cells written *)
(* since cudaMalloc, every other cell still holds what cudaMalloc left.    *)
(***************************************************************************)
bufPos == "bufPos"                \* cudaMalloc at line 153
bufVel1 == "bufVel1"              \* line 156
bufVel2 == "bufVel2"              \* line 159
bufPos2 == "bufPos2"              \* line 192
dev_particleGridIndices == "dev_particleGridIndices"
dev_particleArrayIndices == "dev_particleArrayIndices"
dev_gridCellStartIndices == "dev_gridCellStartIndices"
dev_gridCellEndIndices == "dev_gridCellEndIndices"

\* a glm::vec3 load; an index outside the allocation reads unknown memory
LoadVec(m, buf, j) ==
    IF j \in DOMAIN m[buf] THEN m[buf][j] ELSE [id |-> -1, v |-> uninit.vec]

\* an int load; a bucket entry never written since cudaMalloc, or an index
\* outside the allocation, reads unknown memory
LoadInt(m, buf, j) ==
    IF j \in DOMAIN m[buf] THEN m[buf][j]
    ELSE IF buf = dev_gridCellStartIndices /\ j \in Cells THEN uninit.start
    ELSE IF buf = dev_gridCellEndIndices /\ j \in Cells THEN uninit.end
    ELSE uninit.word

\* memory after the stores W, a set of <<allocation, index, value>>
Store(m, W) ==
    [b \in DOMAIN m |->
        LET wb == {w \in W : w[1] = b}
        IN  IF wb = {} THEN m[b]
            ELSE [x \in (DOMAIN m[b]) \cup {w[2] : w \in wb} |->
                    IF \E w \in wb : w[2] = x
                    THEN (CHOOSE w \in wb : w[2] = x)[3]
                    ELSE m[b][x]]]

(***************************************************************************)
(* The three rules (285-308; the same loop body at 465-483 and 539-557).   *)
(* A visit is the position and velocity of one candidate neighbour.        *)
(***************************************************************************)
NoRules == [rule1 |-> ZeroVec, rule2 |-> ZeroVec, rule3 |-> ZeroVec,
            rule1Cnt |-> 0, rule3Cnt |-> 0]

\* one iteration of the neighbour loop
Visit(acc, n, myPos) ==
    [rule1    |-> IF Within(n.pos, myPos, rule1Distance)
                  THEN VAdd(acc.rule1, n.pos) ELSE acc.rule1,
     rule1Cnt |-> IF Within(n.pos, myPos, rule1Distance)
                  THEN acc.rule1Cnt + 1 ELSE acc.rule1Cnt,
     rule2    |-> IF Within(n.pos, myPos, rule2Distance)
                  THEN VAdd(acc.rule2, VSub(myPos, n.pos)) ELSE acc.rule2,
     rule3    |-> IF Within(n.pos, myPos, rule3Distance)
                  THEN VAdd(acc.rule3, n.vel) ELSE acc.rule3,
     rule3Cnt |-> IF Within(n.pos, myPos, rule3Distance)
                  THEN acc.rule3Cnt + 1 ELSE acc.rule3Cnt]

RECURSIVE Accumulate(_, _, _, _)
Accumulate(visits, k, myPos, acc) ==
    IF k > Len(visits) THEN acc
    ELSE Accumulate(visits, k + 1, myPos, Visit(acc, visits[k], myPos))

\* the statements after the loop: rule1 /= rule1Cnt; rule1 = (rule1 - myPos) *
\* rule1Scale; rule2 *= rule2Scale; rule3 = rule3 / rule3Cnt * rule3Scale
Rule1Term(acc, myPos) ==
    VMulFrac(VSub(VDivCnt(acc.rule1, acc.rule1Cnt), myPos), rule1ScaleNum, rule1ScaleDen)

Rule2Term(acc) == VMulFrac(acc.rule2, rule2ScaleNum, rule2ScaleDen)

Rule3Term(acc) ==
    VMulFrac(VDivCnt(acc.rule3, acc.rule3Cnt), rule3ScaleNum, rule3ScaleDen)

RuleChange(visits, myPos) ==
    LET acc == Accumulate(visits, 1, myPos, NoRules)
    IN  VAdd(VAdd(Rule1Term(acc, myPos), Rule2Term(acc)), Rule3Term(acc))

\* speed > maxSpeed ? newVel / speed * maxSpeed : newVel
ClampSpeed(newVel) ==
    IF IsNaN(newVel) THEN newVel
    ELSE LET speed == Length(newVel)
         IN  IF speed > maxSpeed * Scale
             THEN VMulFrac(newVel, maxSpeed * Scale, speed)
             ELSE newVel

computeVelocityChange(N, iSelf, pos, vel) ==
    RuleChange([k \in 1..N |-> [pos |-> pos[k - 1].v, vel |-> vel[k - 1].v]],
               pos[iSelf].v)

(***************************************************************************)
(* The kernels.  Each is the work of thread index i of a launch with       *)
(* arguments a (allocation names) on memory m: it yields r, the set of     *)
(* <<allocation, index>> it loads, and w, the set of <<allocation, index,  *)
(* value>> it stores.  Threads with index >= N return at once.             *)
(***************************************************************************)
\* a brute-force updater that stores the new velocity over the one it read
BruteForceInPlace(iSelf, a, m) ==
    LET newVel == VAdd(m[a.vel1][iSelf].v,
                       computeVelocityChange(NumObjects, iSelf, m[a.pos], m[a.vel1]))
    IN  [r |-> {<<a.pos, j>> : j \in Idx} \cup {<<a.vel1, j>> : j \in Idx},
         w |-> {<<a.vel1, iSelf,
                  [id |-> m[a.vel1][iSelf].id, v |-> ClampSpeed(newVel)]>>}]

kernUpdateVelocityBruteForce(iSelf, a, m) ==
    LET newVel == VAdd(m[a.vel1][iSelf].v,
                       computeVelocityChange(NumObjects, iSelf, m[a.pos], m[a.vel1]))
    IN  [r |-> {<<a.pos, j>> : j \in Idx} \cup {<<a.vel1, j>> : j \in Idx},
         w |-> {<<a.vel2, iSelf,
                  [id |-> m[a.vel1][iSelf].id, v |-> ClampSpeed(newVel)]>>}]

\* a wrap that keeps the overshoot, as on a torus
WrapAxisTorus(x) ==
    LET lo == IF x < 0 - scene_scale * Scale THEN x + 2 * scene_scale * Scale ELSE x
    IN  IF lo > scene_scale * Scale THEN lo - 2 * scene_scale * Scale ELSE lo

\* no wrap: a coordinate past a boundary stops at that boundary
WrapAxisStop(x) ==
    LET lo == IF x < 0 - scene_scale * Scale THEN 0 - scene_scale * Scale ELSE x
    IN  IF lo > scene_scale * Scale THEN scene_scale * Scale ELSE lo

\* one axis of the wrap: first the test against -scene_scale, then the test
\* against scene_scale, on the value the first one left
WrapAxis(x) ==
    LET lo == IF x < 0 - scene_scale * Scale THEN scene_scale * Scale ELSE x
    IN  IF lo > scene_scale * Scale THEN 0 - scene_scale * Scale ELSE lo

kernUpdatePos(index, a, m) ==
    LET thisPos == VAdd(m[a.pos][index].v, VMulFrac(m[a.vel][index].v, a.dt, Scale))
    IN  [r |-> {<<a.pos, index>>, <<a.vel, index>>},
         w |-> {<<a.pos, index,
                  [id |-> m[a.pos][index].id,
                   v  |-> IF IsNaN(thisPos) THEN thisPos
                          ELSE [k \in 1..3 |-> WrapAxis(thisPos[k])]]>>}]

kernComputeIndices(iSelf, a, m) ==
    LET gridId == GridPos(m[a.pos][iSelf].v, gridMinimum, gridSideCount)
    IN  [r |-> {<<a.pos, iSelf>>},
         w |-> {<<dev_particleArrayIndices, iSelf, iSelf>>,
                <<dev_particleGridIndices, iSelf,
                  gridIndex3Dto1D(gridId[1], gridId[2], gridId[3], gridSideCount)>>}]

kernResetIntBuffer(index, a, m) ==
    [r |-> {}, w |-> {<<a.intBuffer, index, a.value>>}]

\* a locator that records a start for every slot, not only at a boundary
IdentifyEverySlot(index, a, m) ==
    LET keys == m[dev_particleGridIndices]
        curGrid == keys[index]
    IN  [r |-> {<<dev_particleGridIndices, index>>},
         w |-> {<<dev_gridCellStartIndices, curGrid, index>>,
                <<dev_gridCellEndIndices, curGrid, index + 1>>}]

\* a locator whose end entry is the last slot of the run, not one past it
IdentifyEndInclusive(index, a, m) ==
    LET keys == m[dev_particleGridIndices]
        curGrid == keys[index]
        isStart == index = 0 \/ keys[index - 1] # curGrid
        isEnd == (index + 1) = NumObjects \/ keys[index + 1] # curGrid
    IN  [r |-> {<<dev_particleGridIndices, j>> :
                    j \in {index - 1, index, index + 1} \cap Idx},
         w |-> (IF isStart THEN {<<dev_gridCellStartIndices, curGrid, index>>} ELSE {})
               \cup
               (IF isEnd THEN {<<dev_gridCellEndIndices, curGrid, index>>} ELSE {})]

kernIdentifyCellStartEnd(index, a, m) ==
    LET keys == m[dev_particleGridIndices]
        curGrid == keys[index]
        isStart == index = 0 \/ keys[index - 1] # curGrid
        isEnd == (index + 1) = NumObjects \/ keys[index + 1] # curGrid
    IN  [r |-> {<<dev_particleGridIndices, j>> :
                    j \in {index - 1, index, index + 1} \cap Idx},
         w |-> (IF isStart THEN {<<dev_gridCellStartIndices, curGrid, index>>} ELSE {})
               \cup
               (IF isEnd THEN {<<dev_gridCellEndIndices, curGrid, index + 1>>} ELSE {})]

\* int dx[], dy[], dz[] (450-452)
NeighborOffsets ==
    << <<0, 0, 0>>, <<1, 0, 0>>, <<0, 1, 0>>, <<1, 1, 0>>,
       <<0, 0, 1>>, <<1, 0, 1>>, <<0, 1, 1>>, <<1, 1, 1>> >>

\* the cells the loop over i = 0..7 looks up, in order: an offset cell with a
\* coordinate >= gridResolution is skipped
RECURSIVE NeighborCells(_, _, _)
NeighborCells(g, gridResolution, i) ==
    IF i > 8 THEN <<>>
    ELSE LET n == VAdd(g, NeighborOffsets[i])
         IN  (IF n[1] >= gridResolution \/ n[2] >= gridResolution
                   \/ n[3] >= gridResolution
              THEN <<>>
              ELSE <<gridIndex3Dto1D(n[1], n[2], n[3], gridResolution)>>)
             \o NeighborCells(g, gridResolution, i + 1)

\* the slots j = startThreadId .. endThreadId - 1 of one cell
CellSlots(m, nGridId) ==
    LET startThreadId == LoadInt(m, dev_gridCellStartIndices, nGridId)
        endThreadId == LoadInt(m, dev_gridCellEndIndices, nGridId)
    IN  IF endThreadId > startThreadId
        THEN [k \in 1..(endThreadId - startThreadId) |-> startThreadId + k - 1]
        ELSE <<>>

\* every slot the two nested loops visit, in order
RECURSIVE VisitedSlots(_, _, _)
VisitedSlots(m, cells, k) ==
    IF k > Len(cells) THEN <<>>
    ELSE CellSlots(m, cells[k]) \o VisitedSlots(m, cells, k + 1)

SearchedSlots(m, myPos) ==
    VisitedSlots(m, NeighborCells(GridPos(myPos, gridMinimum, gridSideCount),
                                  gridSideCount, 1), 1)

BucketLoads(myPos) ==
    LET cells == NeighborCells(GridPos(myPos, gridMinimum, gridSideCount),
                               gridSideCount, 1)
    IN  {<<dev_gridCellStartIndices, cells[k]>> : k \in 1..Len(cells)}
        \cup {<<dev_gridCellEndIndices, cells[k]>> : k \in 1..Len(cells)}

\* a scattered updater that stores the new velocity at its slot, not at the
\* agent's index
ScatteredStoreAtSlot(iSelf, a, m) ==
    LET boidId == m[dev_particleArrayIndices][iSelf]
        myPos == m[a.pos][boidId].v
        slots == SearchedSlots(m, myPos)
        nBoidId(j) == LoadInt(m, dev_particleArrayIndices, j)
        visits == [k \in 1..Len(slots) |->
                     [pos |-> LoadVec(m, a.pos, nBoidId(slots[k])).v,
                      vel |-> LoadVec(m, a.vel1, nBoidId(slots[k])).v]]
        newVel == VAdd(m[a.vel1][boidId].v, RuleChange(visits, myPos))
    IN  [r |-> {<<dev_particleArrayIndices, iSelf>>, <<a.pos, boidId>>,
                <<a.vel1, boidId>>}
               \cup BucketLoads(myPos)
               \cup {<<dev_particleArrayIndices, slots[k]>> : k \in 1..Len(slots)}
               \cup {<<a.pos, nBoidId(slots[k])>> : k \in 1..Len(slots)}
               \cup {<<a.vel1, nBoidId(slots[k])>> : k \in 1..Len(slots)},
         w |-> {<<a.vel2, iSelf,
                  [id |-> m[a.vel1][boidId].id, v |-> ClampSpeed(newVel)]>>}]

kernUpdateVelNeighborSearchScattered(iSelf, a, m) ==
    LET boidId == m[dev_particleArrayIndices][iSelf]
        myPos == m[a.pos][boidId].v
        slots == SearchedSlots(m, myPos)
        nBoidId(j) == LoadInt(m, dev_particleArrayIndices, j)
        visits == [k \in 1..Len(slots) |->
                     [pos |-> LoadVec(m, a.pos, nBoidId(slots[k])).v,
                      vel |-> LoadVec(m, a.vel1, nBoidId(slots[k])).v]]
        newVel == VAdd(m[a.vel1][boidId].v, RuleChange(visits, myPos))
    IN  [r |-> {<<dev_particleArrayIndices, iSelf>>, <<a.pos, boidId>>,
                <<a.vel1, boidId>>}
               \cup BucketLoads(myPos)
               \cup {<<dev_particleArrayIndices, slots[k]>> : k \in 1..Len(slots)}
               \cup {<<a.pos, nBoidId(slots[k])>> : k \in 1..Len(slots)}
               \cup {<<a.vel1, nBoidId(slots[k])>> : k \in 1..Len(slots)},
         w |-> {<<a.vel2, boidId,
                  [id |-> m[a.vel1][boidId].id, v |-> ClampSpeed(newVel)]>>}]

kernUpdateVelNeighborSearchCoherent(boidId, a, m) ==
    LET myPos == m[a.pos][boidId].v
        slots == SearchedSlots(m, myPos)
        visits == [k \in 1..Len(slots) |->
                     [pos |-> LoadVec(m, a.pos, slots[k]).v,
                      vel |-> LoadVec(m, a.vel1, slots[k]).v]]
        newVel == VAdd(m[a.vel1][boidId].v, RuleChange(visits, myPos))
    IN  [r |-> {<<a.pos, boidId>>, <<a.vel1, boidId>>}
               \cup BucketLoads(myPos)
               \cup {<<a.pos, slots[k]>> : k \in 1..Len(slots)}
               \cup {<<a.vel1, slots[k]>> : k \in 1..Len(slots)},
         w |-> {<<a.vel2, boidId,
                  [id |-> m[a.vel1][boidId].id, v |-> ClampSpeed(newVel)]>>}]

\* a rearranger that moves the positions and leaves the velocities
RearrangePositionsOnly(iSelf, a, m) ==
    LET destId == m[dev_particleArrayIndices][iSelf]
    IN  [r |-> {<<dev_particleArrayIndices, iSelf>>, <<a.pos, destId>>},
         w |-> {<<a.pos2, iSelf, m[a.pos][destId]>>}]

kernRearrangeArray(iSelf, a, m) ==
    LET destId == m[dev_particleArrayIndices][iSelf]
    IN  [r |-> {<<dev_particleArrayIndices, iSelf>>, <<a.pos, destId>>,
                <<a.vel2, destId>>},
         w |-> {<<a.pos2, iSelf, m[a.pos][destId]>>,
                <<a.vel1, iSelf, m[a.vel2][destId]>>}]

\* the position a velocity-updater thread takes as its own
MyPos(name, i, a, m) ==
    IF name = "kernUpdateVelNeighborSearchScattered"
    THEN m[a.pos][m[dev_particleArrayIndices][i]].v
    ELSE m[a.pos][i].v

\* the candidate neighbours a velocity-updater thread visits, in loop order:
\* what it loads from the position buffer (p) and the velocity buffer (q)
Candidates(name, i, a, m) ==
    LET slots == SearchedSlots(m, MyPos(name, i, a, m))
    IN  CASE name = "kernUpdateVelocityBruteForce" ->
                [k \in 1..NumObjects |-> [p |-> m[a.pos][k - 1], q |-> m[a.vel1][k - 1]]]
          [] name = "kernUpdateVelNeighborSearchScattered" ->
                [k \in 1..Len(slots) |->
                    [p |-> LoadVec(m, a.pos, LoadInt(m, dev_particleArrayIndices, slots[k])),
                     q |-> LoadVec(m, a.vel1, LoadInt(m, dev_particleArrayIndices, slots[k]))]]
          [] name = "kernUpdateVelNeighborSearchCoherent" ->
                [k \in 1..Len(slots) |->
                    [p |-> LoadVec(m, a.pos, slots[k]), q |-> LoadVec(m, a.vel1, slots[k])]]

\* rule1, rule2, rule3 and the two counts when the thread's loops end
RuleSums(name, i, a, m) ==
    LET c == Candidates(name, i, a, m)
    IN  Accumulate([k \in 1..Len(c) |-> [pos |-> c[k].p.v, vel |-> c[k].q.v]], 1,
                   MyPos(name, i, a, m), NoRules)

Kernel(name, i, a, m) ==
    CASE name = "kernUpdateVelocityBruteForce" -> kernUpdateVelocityBruteForce(i, a, m)
      [] name = "kernUpdatePos" -> kernUpdatePos(i, a, m)
      [] name = "kernComputeIndices" -> kernComputeIndices(i, a, m)
      [] name = "kernIdentifyCellStartEnd" -> kernIdentifyCellStartEnd(i, a, m)
      [] name = "kernUpdateVelNeighborSearchScattered" ->
            kernUpdateVelNeighborSearchScattered(i, a, m)
      [] name = "kernUpdateVelNeighborSearchCoherent" ->
            kernUpdateVelNeighborSearchCoherent(i, a, m)
      [] name = "kernRearrangeArray" -> kernRearrangeArray(i, a, m)

(***************************************************************************)
(* The host side of the three step functions: the statements in program    *)
(* order.  A kernel name is an asynchronous launch; "sort_by_key" is the   *)
(* blocking thrust call; "swap" is the std::swap of host pointers;         *)
(* "cudaEventSynchronize" is the wait at the end of stepSimulation.        *)
(***************************************************************************)
stepSimulationNaive ==
    <<"kernUpdateVelocityBruteForce", "kernUpdatePos", "swap",
      "cudaEventSynchronize">>

stepSimulationScatteredGrid ==
    <<"kernComputeIndices", "sort_by_key", "kernIdentifyCellStartEnd",
      "kernUpdateVelNeighborSearchScattered", "kernUpdatePos", "swap",
      "cudaEventSynchronize">>

stepSimulationCoherentGrid ==
    <<"kernComputeIndices", "sort_by_key", "kernIdentifyCellStartEnd",
      "kernRearrangeArray", "kernUpdateVelNeighborSearchCoherent",
      "kernUpdatePos", "swap", "cudaEventSynchronize">>

\* the switch of stepSimulation
StepFunction(type) ==
    CASE type = NAIVE -> stepSimulationNaive
      [] type = SCATTERED -> stepSimulationScatteredGrid
      [] type = COHERENT -> stepSimulationCoherentGrid

HostOps == {"sort_by_key", "swap", "cudaEventSynchronize"}

\* a launch that writes the velocities into the buffer it reads them from
ScatteredArgsInPlace == [pos |-> dev_pos, vel1 |-> dev_vel1, vel2 |-> dev_vel1]

\* pos, vel1, vel2 of the scattered updater's launch (609-611, 636-642)
ScatteredArgs == [pos |-> dev_pos, vel1 |-> dev_vel1, vel2 |-> dev_vel2]

\* the pointer values a launch passes, per step function and kernel
LaunchArgs(type, kernel) ==
    CASE kernel = "kernUpdateVelocityBruteForce" ->
            [pos |-> dev_pos, vel1 |-> dev_vel1, vel2 |-> dev_vel2]
      [] kernel = "kernUpdatePos" ->
            IF type = COHERENT
            THEN [pos |-> dev_pos2, vel |-> dev_vel1, dt |-> dt]
            ELSE [pos |-> dev_pos, vel |-> dev_vel2, dt |-> dt]
      [] kernel = "kernComputeIndices" -> [pos |-> dev_pos]
      [] kernel = "kernIdentifyCellStartEnd" -> [N |-> NumObjects]
      [] kernel = "kernUpdateVelNeighborSearchScattered" -> ScatteredArgs
      [] kernel = "kernRearrangeArray" ->
            [pos |-> dev_pos, vel2 |-> dev_vel1, pos2 |-> dev_pos2, vel1 |-> dev_vel2]
      [] kernel = "kernUpdateVelNeighborSearchCoherent" ->
            [pos |-> dev_pos2, vel1 |-> dev_vel2, vel2 |-> dev_vel1]

\* a device that picks the newest launch instead of the oldest
NewestLaunch(q) == q[Len(q)]

\* the launch the device is running: launches of one stream run in issue order
Executing(q) == Head(q)

\* thrust::sort_by_key: every order of the slots that makes the keys ascending
\* (the sort is not stable: equal keys may come out in any order)
SortOrders(keys) ==
    {p \in [Idx -> Idx] :
        /\ \A i, j \in Idx : i # j => p[i] # p[j]
        /\ \A i, j \in Idx : i < j => keys[p[i]] <= keys[p[j]]}

(***************************************************************************)
(* What the model draws at initSimulation.                                 *)
(***************************************************************************)
\* kernGenerateRandomPosArray: scale * generateRandomVec3(time, index), a
\* pseudo-random point of the domain per index.  The model draws the positions
\* of indices 0, 1, 2, ... as PosList from one of its entries on, cyclically.
PosList ==
    <<Vec3(3 * Scale, 0, 0), Vec3(4 * Scale, 0, 0), Vec3(6 * Scale, 0, 0),
      Vec3(scene_scale * Scale - Scale \div 2, 0, 0),
      Vec3((Scale \div 2) - scene_scale * Scale, 6 * Scale, 0)>>

\* dev_vel1 is never initialised: the velocities the first step reads are
\* whatever cudaMalloc left, any bit pattern, a NaN included.  Drawn like the
\* positions.
VelList ==
    <<Vec3((3 * Scale) \div 2, 0, 0),
      Vec3(0 - (6 * Scale) \div 5, 0, (9 * Scale) \div 10),
      NaNVec>>

Cyclic(list, seed) == [i \in Idx |-> list[((seed + i) % Len(list)) + 1]]

\* contents of memory the program never wrote: a bucket entry (start, end),
\* an int (word) and a vector (vec)
UninitChoices ==
    {[start |-> 0, end |-> 0, word |-> 0, vec |-> ZeroVec],
     [start |-> 0, end |-> 1, word |-> 0, vec |-> ZeroVec],
     [start |-> 0 - 1, end |-> 0, word |-> 0, vec |-> Vec3(Scale, Scale, Scale)]}

DtChoices == {Scale}

(***************************************************************************)
(* Initial state and actions.                                              *)
(***************************************************************************)
NoLog == [kernel |-> "none", r |-> {}, w |-> {}]

\* the eight device buffers initSimulation allocates (153-193)
Allocations ==
    {bufPos, bufVel1, bufVel2, bufPos2, dev_particleGridIndices,
     dev_particleArrayIndices, dev_gridCellStartIndices, dev_gridCellEndIndices}

Init ==
    /\ life = "Uninitialized"
    /\ hpc = 0
    /\ stepType = "NONE"
    /\ dt = 0
    /\ stream = <<>>
    /\ todo = Idx
    /\ mem = <<>>
    /\ dev_pos = "null"
    /\ dev_pos2 = "null"
    /\ dev_vel1 = "null"
    /\ dev_vel2 = "null"
    /\ uninit = [start |-> 0, end |-> 0, word |-> 0, vec |-> ZeroVec]
    /\ history = <<>>
    /\ passes = <<>>
    /\ log = NoLog
    /\ snap = <<>>
    /\ call = [op |-> "none", from |-> "none"]
    /\ frees = [b \in Allocations |-> 0]
    /\ lastError = "none"
    /\ diag = "none"

\* The functions of the interface test nothing before they act: a call is
\* carried out in whatever state it is made.  A call the lifecycle forbids
\* that goes on to use the buffers or the pointers of another state leaves
\* the model in "OutOfContract", from where the program is not followed.
OutOfContract(op) ==
    /\ life' = "OutOfContract"
    /\ call' = [op |-> op, from |-> life]
    /\ UNCHANGED <<hpc, stepType, dt, stream, todo, mem, dev_pos, dev_pos2, dev_vel1,
                   dev_vel2, uninit, history, passes, log, snap, frees, lastError, diag>>

\* numObjects is still 0: the first launch has a grid of 0 blocks, which the
\* runtime refuses, and the checkCUDAError after it ends the process
RefusedLaunch(op, msg) ==
    /\ life' = "Aborting"
    /\ call' = [op |-> op, from |-> life]
    /\ lastError' = msg
    /\ diag' = msg
    /\ UNCHANGED <<hpc, stepType, dt, stream, todo, mem, dev_pos, dev_pos2, dev_vel1,
                   dev_vel2, uninit, history, passes, log, snap, frees>>

initSimulation ==
    \/ /\ life = "Uninitialized"
       /\ \E ps \in 1..Len(PosList), vs \in 1..Len(VelList), u \in UninitChoices :
          LET p == Cyclic(PosList, ps)
              v == Cyclic(VelList, vs)
          IN
           /\ uninit' = u
           /\ mem' = [b \in Allocations |->
                       CASE b = bufPos -> [i \in Idx |-> [id |-> i, v |-> p[i]]]
                         [] b = bufVel1 -> [i \in Idx |-> [id |-> i, v |-> v[i]]]
                         [] b \in {bufVel2, bufPos2} ->
                               [i \in Idx |-> [id |-> 0 - 1, v |-> u.vec]]
                         [] b \in {dev_particleGridIndices, dev_particleArrayIndices} ->
                               [i \in Idx |-> u.word]
                         [] OTHER -> <<>>]
       /\ dev_pos' = bufPos
       /\ dev_vel1' = bufVel1
       /\ dev_vel2' = bufVel2
       /\ dev_pos2' = bufPos2
       /\ life' = "Ready"
       /\ call' = [op |-> "initSimulation", from |-> life]
       /\ UNCHANGED <<hpc, stepType, dt, stream, todo, history, passes, log, snap,
                      frees, lastError, diag>>
    \/ \* a second initSimulation: new buffers, the pointers to the old ones lost
       /\ life \in {"Ready", "TornDown"}
       /\ OutOfContract("initSimulation")

\* what copyBoidsToVBO exports: dev_pos and dev_vel1, index by index; here the
\* agent id each index holds
ExportedIds ==
    [pos |-> [i \in Idx |-> mem[dev_pos][i].id],
     vel |-> [i \in Idx |-> mem[dev_vel1][i].id]]

\* copyBoidsToVBO: two kernels that read dev_pos and dev_vel1, then
\* cudaDeviceSynchronize
copyBoidsToVBO ==
    \/ /\ life = "Ready"
       /\ call' = [op |-> "copyBoidsToVBO", from |-> life]
       /\ UNCHANGED <<life, hpc, stepType, dt, stream, todo, mem, dev_pos, dev_pos2,
                      dev_vel1, dev_vel2, uninit, history, passes, log, snap, frees,
                      lastError, diag>>
    \/ /\ life = "Uninitialized"
       /\ RefusedLaunch("copyBoidsToVBO", "copyBoidsToVBO")
    \/ /\ life = "TornDown"
       /\ OutOfContract("copyBoidsToVBO")

\* stepSimulation up to the switch: the host enters the chosen step function
stepSimulation ==
    \/ /\ life = "Ready"
       /\ Len(history) < MaxSteps
       /\ \E type \in SIMULATION_TYPE, d \in DtChoices :
           /\ stepType' = type
           /\ dt' = d
       /\ life' = "Stepping"
       /\ hpc' = 1
       /\ passes' = <<>>
       /\ log' = NoLog
       /\ snap' = ExportedIds
       /\ call' = [op |-> "stepSimulation", from |-> life]
       /\ UNCHANGED <<stream, todo, mem, dev_pos, dev_pos2, dev_vel1, dev_vel2, uninit,
                      history, frees, lastError, diag>>
    \/ /\ life = "Uninitialized"
       /\ \E type \in SIMULATION_TYPE :
            RefusedLaunch("stepSimulation", StepFunction(type)[1])
    \/ \* the kernels are launched on the freed buffers
       /\ life = "TornDown"
       /\ OutOfContract("stepSimulation")

\* the pointers endSimulation passes to cudaFree, in order (205-214)
FreeOrder ==
    <<dev_vel1, dev_vel2, dev_pos, dev_particleGridIndices, dev_particleArrayIndices,
      dev_gridCellStartIndices, dev_gridCellEndIndices, dev_pos2>>

\* endSimulation: cudaFree of the eight pointers.  Before initSimulation the
\* four vector pointers are null (cudaFree(0) does nothing) and the int
\* pointers too; the pointers are not reset after the frees.
endSimulation ==
    /\ life \in {"Uninitialized", "Ready", "TornDown"}
    /\ \A b \in Allocations : frees[b] < 2
    /\ frees' = IF life = "Uninitialized" THEN frees
                ELSE [b \in Allocations |->
                        frees[b] + Cardinality({k \in 1..Len(FreeOrder) : FreeOrder[k] = b})]
    /\ life' = IF life = "Uninitialized" THEN life ELSE "TornDown"
    /\ call' = [op |-> "endSimulation", from |-> life]
    /\ UNCHANGED <<hpc, stepType, dt, stream, todo, mem, dev_pos, dev_pos2, dev_vel1,
                   dev_vel2, uninit, history, passes, log, snap, lastError, diag>>

Statement == StepFunction(stepType)[hpc]

\* the launches a checkCUDAErrorWithLine follows: every one but that of
\* kernRearrangeArray (695-700)
Checked(kernel) == kernel # "kernRearrangeArray"

\* kernel<<<...>>>(...) and the checkCUDAErrorWithLine after it.  A launch the
\* runtime accepts joins the stream and the host goes on; one it refuses
\* launches nothing and leaves its error with the runtime.  checkCUDAError
\* reads the error the runtime holds, whichever launch left it; on an error
\* it prints its own message and exits.
LaunchKernel ==
    /\ life = "Stepping"
    /\ Statement \notin HostOps
    /\ \E accepted \in BOOLEAN :
        LET err == IF accepted THEN lastError ELSE Statement
        IN  /\ stream' = IF accepted
                         THEN Append(stream, [kernel |-> Statement,
                                              a |-> LaunchArgs(stepType, Statement)])
                         ELSE stream
            /\ lastError' = err
            /\ IF Checked(Statement) /\ err # "none"
               THEN /\ life' = "Aborting"
                    /\ diag' = Statement
                    /\ hpc' = hpc
               ELSE /\ life' = life
                    /\ diag' = diag
                    /\ hpc' = hpc + 1
    /\ UNCHANGED <<stepType, dt, todo, mem, dev_pos, dev_pos2, dev_vel1, dev_vel2,
                   uninit, history, passes, log, snap, call, frees>>

\* exit(EXIT_FAILURE) in checkCUDAError (31): the process and its device
\* context end
Exit ==
    /\ life = "Aborting"
    /\ life' = "Exited"
    /\ stream' = <<>>
    /\ todo' = Idx
    /\ mem' = <<>>
    /\ passes' = <<>>
    /\ log' = NoLog
    /\ UNCHANGED <<hpc, stepType, dt, dev_pos, dev_pos2, dev_vel1, dev_vel2, uninit,
                   history, snap, call, frees, lastError, diag>>

\* a sort that orders the keys and leaves the values where they were
sort_keys_only ==
    /\ life = "Stepping"
    /\ Statement = "sort_by_key"
    /\ stream = <<>>
    /\ \E p \in SortOrders(mem[dev_particleGridIndices]) :
        mem' = [mem EXCEPT
                  ![dev_particleGridIndices] =
                      [i \in Idx |-> mem[dev_particleGridIndices][p[i]]]]
    /\ hpc' = hpc + 1
    /\ passes' = Append(passes, "sort_by_key")
    /\ UNCHANGED <<life, stepType, dt, stream, todo, dev_pos, dev_pos2, dev_vel1,
                   dev_vel2, uninit, history, log, snap, call, frees, lastError, diag>>

\* thrust::sort_by_key on (dev_particleGridIndices, dev_particleArrayIndices):
\* it returns when the sort is done, after the launches before it
sort_by_key ==
    /\ life = "Stepping"
    /\ Statement = "sort_by_key"
    /\ stream = <<>>
    /\ \E p \in SortOrders(mem[dev_particleGridIndices]) :
        mem' = [mem EXCEPT
                  ![dev_particleGridIndices] =
                      [i \in Idx |-> mem[dev_particleGridIndices][p[i]]],
                  ![dev_particleArrayIndices] =
                      [i \in Idx |-> mem[dev_particleArrayIndices][p[i]]]]
    /\ hpc' = hpc + 1
    /\ passes' = Append(passes, "sort_by_key")
    /\ UNCHANGED <<life, stepType, dt, stream, todo, dev_pos, dev_pos2, dev_vel1,
                   dev_vel2, uninit, history, log, snap, call, frees, lastError, diag>>

\* an assignment in place of the exchange: the current pointer takes the
\* other's value, the other keeps its own
SwapOverwrites ==
    /\ life = "Stepping"
    /\ Statement = "swap"
    /\ dev_vel1' = IF stepType = COHERENT THEN dev_vel1 ELSE dev_vel2
    /\ dev_pos' = IF stepType = COHERENT THEN dev_pos2 ELSE dev_pos
    /\ hpc' = hpc + 1
    /\ passes' = Append(passes, "swap")
    /\ UNCHANGED <<life, stepType, dt, stream, todo, mem, uninit, history, log, snap,
                   call, frees, lastError, diag, dev_vel2, dev_pos2>>

\* std::swap(dev_vel1, dev_vel2) (594, 651) or std::swap(dev_pos2, dev_pos) (719)
SwapBuffers ==
    /\ life = "Stepping"
    /\ Statement = "swap"
    /\ dev_vel1' = IF stepType = COHERENT THEN dev_vel1 ELSE dev_vel2
    /\ dev_vel2' = IF stepType = COHERENT THEN dev_vel2 ELSE dev_vel1
    /\ dev_pos' = IF stepType = COHERENT THEN dev_pos2 ELSE dev_pos
    /\ dev_pos2' = IF stepType = COHERENT THEN dev_pos ELSE dev_pos2
    /\ hpc' = hpc + 1
    /\ passes' = Append(passes, "swap")
    /\ UNCHANGED <<life, stepType, dt, stream, todo, mem, uninit, history, log, snap,
                   call, frees, lastError, diag>>

\* a return that does not wait for the device
ReturnWithoutWait ==
    /\ life = "Stepping"
    /\ Statement = "cudaEventSynchronize"
    /\ life' = "Ready"
    /\ hpc' = 0
    /\ history' = Append(history, stepType)
    /\ stepType' = "NONE"
    /\ passes' = <<>>
    /\ log' = NoLog
    /\ UNCHANGED <<dt, stream, todo, mem, dev_pos, dev_pos2, dev_vel1, dev_vel2, uninit,
                   snap, call, frees, lastError, diag>>

\* cudaEventRecord(dev_frameEnd); cudaEventSynchronize(dev_frameEnd); ++frameCnt:
\* stepSimulation returns once the device has run every launch of the step
EventSynchronize ==
    /\ life = "Stepping"
    /\ Statement = "cudaEventSynchronize"
    /\ stream = <<>>
    /\ life' = "Ready"
    /\ hpc' = 0
    /\ history' = Append(history, stepType)
    /\ stepType' = "NONE"
    /\ passes' = <<>>
    /\ log' = NoLog
    /\ UNCHANGED <<dt, stream, todo, mem, dev_pos, dev_pos2, dev_vel1, dev_vel2, uninit,
                   snap, call, frees, lastError, diag>>

\* the device runs thread i of the launch at the head of the stream; the launch
\* leaves the stream with its last thread
RunThread(name, i) ==
    /\ stream # <<>>
    /\ Executing(stream).kernel = name
    /\ i \in todo
    /\ LET a == Executing(stream).a
           res == Kernel(name, i, a, mem)
           last == todo = {i}
           first == todo = Idx
       IN  /\ mem' = Store(mem, res.w)
           /\ todo' = IF last THEN Idx ELSE todo \ {i}
           /\ stream' = IF last THEN Tail(stream) ELSE stream
           /\ passes' = IF last THEN Append(passes, name) ELSE passes
           /\ log' = [kernel |-> name,
                      r |-> (IF first THEN {} ELSE log.r)
                            \cup {<<e[1], e[2], i>> : e \in res.r},
                      w |-> (IF first THEN {} ELSE log.w)
                            \cup {<<e[1], e[2], i>> : e \in res.w}]
    /\ UNCHANGED <<life, hpc, stepType, dt, dev_pos, dev_pos2, dev_vel1, dev_vel2,
                   uninit, history, snap, call, frees, lastError, diag>>

UpdateVelocityBruteForce == \E i \in Idx : RunThread("kernUpdateVelocityBruteForce", i)
UpdatePos == \E i \in Idx : RunThread("kernUpdatePos", i)
ComputeIndices == \E i \in Idx : RunThread("kernComputeIndices", i)
IdentifyCellStartEnd == \E i \in Idx : RunThread("kernIdentifyCellStartEnd", i)
UpdateVelNeighborSearchScattered ==
    \E i \in Idx : RunThread("kernUpdateVelNeighborSearchScattered", i)
UpdateVelNeighborSearchCoherent ==
    \E i \in Idx : RunThread("kernUpdateVelNeighborSearchCoherent", i)
RearrangeArray == \E i \in Idx : RunThread("kernRearrangeArray", i)

Next ==
    \/ initSimulation
    \/ stepSimulation
    \/ copyBoidsToVBO
    \/ endSimulation
    \/ LaunchKernel
    \/ Exit
    \/ sort_by_key
    \/ SwapBuffers
    \/ EventSynchronize
    \/ UpdateVelocityBruteForce
    \/ UpdatePos
    \/ ComputeIndices
    \/ IdentifyCellStartEnd
    \/ UpdateVelNeighborSearchScattered
    \/ UpdateVelNeighborSearchCoherent
    \/ RearrangeArray

Spec == Init /\ [][Next]_vars

(***************************************************************************)
(* A whole launch and a whole step as functions of memory, for comparing   *)
(* step variants from one state: the threads of a launch in index order,   *)
(* the launches in program order with the arguments the step function      *)
(* passes.  p is the order the sort leaves the slots in.                   *)
(***************************************************************************)
RECURSIVE RunLaunch(_, _, _, _)
RunLaunch(name, a, m, i) ==
    IF i >= NumObjects THEN m
    ELSE RunLaunch(name, a, Store(m, Kernel(name, i, a, m).w), i + 1)

ArgsAt(type, kernel, d) ==
    IF kernel = "kernUpdatePos"
    THEN [LaunchArgs(type, kernel) EXCEPT !.dt = d]
    ELSE LaunchArgs(type, kernel)

Sorted(m, p) ==
    [m EXCEPT ![dev_particleGridIndices] =
                  [i \in Idx |-> m[dev_particleGridIndices][p[i]]],
              ![dev_particleArrayIndices] =
                  [i \in Idx |-> m[dev_particleArrayIndices][p[i]]]]

RECURSIVE RunStep(_, _, _, _, _, _)
RunStep(type, d, p, m, prog, k) ==
    IF k > Len(prog) THEN m
    ELSE RunStep(type, d, p,
                 IF prog[k] = "sort_by_key" THEN Sorted(m, p)
                 ELSE IF prog[k] \in HostOps THEN m
                 ELSE RunLaunch(prog[k], ArgsAt(type, prog[k], d), m, 0),
                 prog, k + 1)

\* the cell ids the indexer leaves for the sort
IndexedKeys ==
    RunLaunch("kernComputeIndices", LaunchArgs(SCATTERED, "kernComputeIndices"),
              mem, 0)[dev_particleGridIndices]

\* the buffers that are current (dev_pos, dev_vel1) after the step's swap
NaiveResult(d) ==
    LET m == RunStep(NAIVE, d, [i \in Idx |-> i], mem, stepSimulationNaive, 1)
    IN  [pos |-> m[dev_pos], vel |-> m[dev_vel2]]

ScatteredResult(d, p) ==
    LET m == RunStep(SCATTERED, d, p, mem, stepSimulationScatteredGrid, 1)
    IN  [pos |-> m[dev_pos], vel |-> m[dev_vel2], perm |-> m[dev_particleArrayIndices]]

CoherentResult(d, p) ==
    LET m == RunStep(COHERENT, d, p, mem, stepSimulationCoherentGrid, 1)
    IN  [pos |-> m[dev_pos2], vel |-> m[dev_vel1], perm |-> m[dev_particleArrayIndices]]

Ready == life = "Ready"

\* the launch whose threads are running is the velocity updater of a grid step
UpdaterReadsBuckets ==
    /\ stream # <<>>
    /\ Executing(stream).kernel \in {"kernUpdateVelNeighborSearchScattered",
                                     "kernUpdateVelNeighborSearchCoherent"}

\* every thread of the kernel that ran last has run
LaunchComplete(name) ==
    /\ log.kernel = name
    /\ \A i \in Idx : \E e \in log.w : e[3] = i

\* the cell kernComputeIndices assigns to a position
CellOf(pos) ==
    LET g == GridPos(pos, gridMinimum, gridSideCount)
    IN  gridIndex3Dto1D(g[1], g[2], g[3], gridSideCount)

\* the cells the grid velocity updaters look up for a position
BlockOf(pos) ==
    LET cells == NeighborCells(GridPos(pos, gridMinimum, gridSideCount),
                               gridSideCount, 1)
    IN  {cells[k] : k \in 1..Len(cells)}

maxRadius == Max(Max(rule1Distance, rule2Distance), rule3Distance)

(***************************************************************************)
(* C1 (as claimed): from any state between steps, a scattered-grid step    *)
(* and a brute-force step leave every agent with the same new velocity and *)
(* position, whatever order the sort leaves equal keys in.                 *)
(***************************************************************************)
C1_GridMatchesBruteForce ==
    Ready =>
        \A d \in DtChoices : \A p \in SortOrders(IndexedKeys) :
            /\ ScatteredResult(d, p).pos = NaiveResult(d).pos
            /\ ScatteredResult(d, p).vel = NaiveResult(d).vel

(***************************************************************************)
(* C2 (as claimed): for any two agents closer than the largest interaction *)
(* radius, the cell the indexer assigns to one is among the cells of the   *)
(* 2x2x2 block the updater searches for the other, in both directions.     *)
(***************************************************************************)
C2_NeighborCellSufficiency ==
    Ready =>
        \A i, j \in Idx :
            Within(mem[dev_pos][i].v, mem[dev_pos][j].v, maxRadius)
                => CellOf(mem[dev_pos][j].v) \in BlockOf(mem[dev_pos][i].v)

(***************************************************************************)
(* C3 (as claimed): while the velocity updater of a grid step reads the    *)
(* bucket table, every cell without an occupant in this step has entries   *)
(* that denote an empty range.                                             *)
(***************************************************************************)
C3_EmptyCellsAreReset ==
    UpdaterReadsBuckets =>
        \A c \in Cells :
            (\A i \in Idx : mem[dev_particleGridIndices][i] # c)
                => LoadInt(mem, dev_gridCellEndIndices, c)
                       <= LoadInt(mem, dev_gridCellStartIndices, c)

(***************************************************************************)
(* C4 (as claimed): after the bucket locator pass every slot of [0, N)     *)
(* lies in the [start, end) range of exactly one cell and no range reaches *)
(* outside [0, N).                                                         *)
(***************************************************************************)
C4_BucketTableComplete ==
    LaunchComplete("kernIdentifyCellStartEnd") =>
        /\ \A s \in Idx :
              Cardinality({c \in Cells :
                  /\ LoadInt(mem, dev_gridCellStartIndices, c) <= s
                  /\ s < LoadInt(mem, dev_gridCellEndIndices, c)}) = 1
        /\ \A c \in Cells :
              LoadInt(mem, dev_gridCellEndIndices, c)
                    > LoadInt(mem, dev_gridCellStartIndices, c)
                => /\ LoadInt(mem, dev_gridCellStartIndices, c) >= 0
                   /\ LoadInt(mem, dev_gridCellEndIndices, c) <= NumObjects

(***************************************************************************)
(* C5 (as claimed): from any state between steps and for the same sorted   *)
(* order, the coherent step leaves at slot s the position and velocity the *)
(* scattered step leaves at agent index permutation[s].                    *)
(***************************************************************************)
C5_CoherentMatchesScattered ==
    Ready =>
        \A d \in DtChoices : \A p \in SortOrders(IndexedKeys) :
            LET sc == ScatteredResult(d, p)
                co == CoherentResult(d, p)
            IN  \A s \in Idx :
                    /\ co.pos[s].v = sc.pos[sc.perm[s]].v
                    /\ co.vel[s].v = sc.vel[sc.perm[s]].v

IsPrefix(s, t) == Len(s) <= Len(t) /\ \A k \in 1..Len(s) : s[k] = t[k]

\* the passes of a step in the order the specification gives them: indexer,
\* sorter, bucket locator, rearranger (coherent only), velocity updater,
\* position integrator
ClaimedDeviceOrder(type) ==
    CASE type = NAIVE -> <<"kernUpdateVelocityBruteForce", "kernUpdatePos">>
      [] type = SCATTERED ->
            <<"kernComputeIndices", "sort_by_key", "kernIdentifyCellStartEnd",
              "kernUpdateVelNeighborSearchScattered", "kernUpdatePos">>
      [] type = COHERENT ->
            <<"kernComputeIndices", "sort_by_key", "kernIdentifyCellStartEnd",
              "kernRearrangeArray", "kernUpdateVelNeighborSearchCoherent",
              "kernUpdatePos">>
      [] OTHER -> <<>>

IsDevicePass(x) == x # "swap"
DevicePasses == SelectSeq(passes, IsDevicePass)

\* a thread of some kernel runs in this step of the model
ThreadRuns == log' # log /\ log'.kernel # "none"

OrderIndex(kernel) ==
    CHOOSE k \in 1..Len(ClaimedDeviceOrder(stepType)) :
        ClaimedDeviceOrder(stepType)[k] = kernel

C7_NoBufferReadAndWritten ==
    \A e \in log.r, f \in log.w : e[1] # f[1]

(***************************************************************************)
(* C7 (amended): the only kernel pass that reads and writes one buffer is  *)
(* the position integrator kernUpdatePos, which updates the position       *)
(* buffer in place, each thread loading and storing only its own index;    *)
(* every other kernel pass writes only buffers it does not read.  (The     *)
(* sort, a library call, permutes its two arrays in place.)                *)
(***************************************************************************)
C7_OnlyIntegratorInPlace ==
    \A e \in log.r, f \in log.w :
        e[1] = f[1] =>
            /\ log.kernel = "kernUpdatePos"
            /\ e[2] = e[3]
            /\ f[2] = f[3]

\* the integrator has run every thread on the buffer it reads and writes
C7_Witness ==
    /\ LaunchComplete("kernUpdatePos")
    /\ \E e \in log.r, f \in log.w : e[1] = f[1] /\ e[2] = f[2]
    /\ \E e \in log.r : \A f \in log.w : e[1] # f[1]

(***************************************************************************)
(* C8: within a pass no two threads store to one location.  The indexer,   *)
(* the rearranger, the integrator and the coherent updater store only at   *)
(* their own index, the scattered updater at vel2[permutation[i]], the     *)
(* bucket locator at most once to start[c] and once to end[c] per cell.    *)
(***************************************************************************)
C8_NoTwoWriters ==
    /\ \A e, f \in log.w : (e[1] = f[1] /\ e[2] = f[2]) => e[3] = f[3]
    /\ log.kernel \in {"kernComputeIndices", "kernRearrangeArray", "kernUpdatePos",
                       "kernUpdateVelNeighborSearchCoherent",
                       "kernUpdateVelocityBruteForce"}
          => \A f \in log.w : f[2] = f[3]
    /\ log.kernel = "kernUpdateVelNeighborSearchScattered"
          => \A f \in log.w : f[2] = mem[dev_particleArrayIndices][f[3]]

\* the locator has run on a key array in which two slots share a cell
C8_Witness ==
    /\ LaunchComplete("kernIdentifyCellStartEnd")
    /\ \E i, j \in Idx :
          i # j /\ mem[dev_particleGridIndices][i] = mem[dev_particleGridIndices][j]

\* only naive and scattered-grid steps have been made so far
OnlyInPlaceSteps ==
    \A k \in 1..Len(history) : history[k] \in {NAIVE, SCATTERED}

(***************************************************************************)
(* C9: a naive step and a scattered-grid step leave every agent at its     *)
(* index: the agent at index i of the exported position and velocity       *)
(* buffers after the step is the agent that was there before it, and in a  *)
(* run of only these two step functions index i holds agent i throughout.  *)
(***************************************************************************)
C9_IndexKeepsItsAgent ==
    (Ready /\ history # <<>>) =>
        /\ history[Len(history)] \in {NAIVE, SCATTERED} => ExportedIds = snap
        /\ OnlyInPlaceSteps =>
              ExportedIds = [pos |-> [i \in Idx |-> i], vel |-> [i \in Idx |-> i]]

\* a scattered-grid step has ended whose sort moved some agent to another slot
C9_Witness ==
    /\ Ready
    /\ history # <<>>
    /\ history[Len(history)] = SCATTERED
    /\ \E i \in Idx : mem[dev_particleArrayIndices][i] # i

\* the thread of the running launch that this step of the model runs
RunningThread == CHOOSE i \in todo : todo' = IF todo = {i} THEN Idx ELSE todo \ {i}

\* the coordinate the specification gives for a computed coordinate c
WrapClaimed(c) ==
    IF c < 0 - scene_scale * Scale THEN scene_scale * Scale
    ELSE IF c > scene_scale * Scale THEN 0 - scene_scale * Scale
    ELSE c

(***************************************************************************)
(* C10: the position integrator stores, per axis, pos + vel * dt when that *)
(* lies within [-scene_scale, scene_scale], exactly +scene_scale when it   *)
(* lies below -scene_scale, and exactly -scene_scale when it lies above    *)
(* +scene_scale.                                                           *)
(***************************************************************************)
C10_WrapAtDomainBounds ==
    [][(ThreadRuns /\ log'.kernel = "kernUpdatePos") =>
        LET i == RunningThread
            a == Head(stream).a
            thisPos == VAdd(mem[a.pos][i].v, VMulFrac(mem[a.vel][i].v, a.dt, Scale))
        IN  ~IsNaN(thisPos) =>
                \A k \in 1..3 : mem'[a.pos][i].v[k] = WrapClaimed(thisPos[k])]_vars

\* an integrator thread has stored -scene_scale for an agent moving in +x: the
\* computed coordinate lay above +scene_scale
C10_Witness ==
    /\ log.kernel = "kernUpdatePos"
    /\ \E e \in log.r, f \in log.w :
          /\ e[1] # f[1]
          /\ e[3] = f[3]
          /\ ~IsNaN(mem[f[1]][f[2]].v)
          /\ ~IsNaN(mem[e[1]][e[2]].v)
          /\ mem[f[1]][f[2]].v[1] = 0 - scene_scale * Scale
          /\ mem[e[1]][e[2]].v[1] > 0

\* the integrator thread that runs in this step of the model, its launch
\* arguments and the position it computes before the wrap
IntegratorRuns == ThreadRuns /\ log'.kernel = "kernUpdatePos"
ComputedPos ==
    LET a == Head(stream).a
    IN  VAdd(mem[a.pos][RunningThread].v,
             VMulFrac(mem[a.vel][RunningThread].v, a.dt, Scale))
StoredPos == mem'[Head(stream).a.pos][RunningThread].v

(***************************************************************************)
(* C11 (as claimed): a coordinate pushed past the positive boundary by an  *)
(* overflow greater than zero ends the step at the negative boundary plus  *)
(* that overflow.                                                          *)
(***************************************************************************)
C11_WrapKeepsOverflow ==
    [][(IntegratorRuns /\ ~IsNaN(ComputedPos)) =>
        \A k \in 1..3 :
            ComputedPos[k] > scene_scale * Scale =>
                StoredPos[k] = (0 - scene_scale * Scale)
                                 + (ComputedPos[k] - scene_scale * Scale)]_vars

(***************************************************************************)
(* C11 (amended): a coordinate pushed past the positive boundary by an     *)
(* overflow greater than zero ends the step at the negative boundary       *)
(* itself: the overflow is discarded.                                      *)
(***************************************************************************)
C11_WrapDiscardsOverflow ==
    [][(IntegratorRuns /\ ~IsNaN(ComputedPos)) =>
        \A k \in 1..3 :
            ComputedPos[k] > scene_scale * Scale =>
                /\ StoredPos[k] = 0 - scene_scale * Scale
                /\ StoredPos[k] # (0 - scene_scale * Scale)
                                    + (ComputedPos[k] - scene_scale * Scale)]_vars

\* the integrator of a step has run every thread and left an agent that was
\* moving in +x on the negative x boundary
C11_Witness ==
    /\ LaunchComplete("kernUpdatePos")
    /\ life = "Stepping"
    /\ \E e \in log.r, f \in log.w :
          /\ e[1] # f[1]
          /\ e[3] = f[3]
          /\ ~IsNaN(mem[f[1]][f[2]].v)
          /\ ~IsNaN(mem[e[1]][e[2]].v)
          /\ mem[f[1]][f[2]].v[1] = 0 - scene_scale * Scale
          /\ mem[e[1]][e[2]].v[1] > 0
          /\ mem[e[1]][e[2]].v[1] <= maxSpeed * Scale

\* a step has returned: dev_vel1 is the velocity buffer the step produced
AfterStep == Ready /\ history # <<>>

\* |v| <= maxSpeed, allowing one model unit for the rounding of the rescale
AtMostMaxSpeed(v) == ~IsNaN(v) /\ Length(v) <= maxSpeed * Scale + 1

(***************************************************************************)
(* C12 (as claimed): the velocity written for an agent is the sum          *)
(* vA + rule1 + rule2 + rule3, rescaled to magnitude maxSpeed when its     *)
(* magnitude exceeds maxSpeed; so after any step every velocity in the     *)
(* current velocity buffer has magnitude at most maxSpeed.                 *)
(***************************************************************************)
C12_SpeedClamped ==
    AfterStep => \A i \in Idx : AtMostMaxSpeed(mem[dev_vel1][i].v)

VelocityUpdaters ==
    {"kernUpdateVelocityBruteForce", "kernUpdateVelNeighborSearchScattered",
     "kernUpdateVelNeighborSearchCoherent"}

\* a velocity-updater thread runs in this step of the model
UpdaterRuns == ThreadRuns /\ log'.kernel \in VelocityUpdaters

\* the sums and counts of the thread that runs, and its own position
RunningSums == RuleSums(log'.kernel, RunningThread, Head(stream).a, mem)
RunningPos == MyPos(log'.kernel, RunningThread, Head(stream).a, mem)

(***************************************************************************)
(* C13 (as claimed): when the rule 1 count or the rule 3 count of an agent *)
(* is zero, that rule contributes the zero vector to the new velocity (no  *)
(* division by the zero count is made).                                    *)
(***************************************************************************)
C13_ZeroCountContributesZero ==
    [][UpdaterRuns =>
        /\ RunningSums.rule1Cnt = 0 => Rule1Term(RunningSums, RunningPos) = ZeroVec
        /\ RunningSums.rule3Cnt = 0 => Rule3Term(RunningSums) = ZeroVec]_vars

(***************************************************************************)
(* C14 (as claimed): initSimulation is carried out only in Uninitialized,  *)
(* no call is carried out on the buffers of a state the lifecycle forbids  *)
(* it in (a second initSimulation; stepSimulation, copyBoidsToVBO or       *)
(* endSimulation after endSimulation), and no buffer is freed twice.       *)
(* (Calls made before initSimulation end in a refused launch or free       *)
(* nothing.)                                                               *)
(***************************************************************************)
C14_LifecycleEnforced ==
    /\ life # "OutOfContract"
    /\ call.op = "initSimulation" => call.from = "Uninitialized"
    /\ \A b \in Allocations : frees[b] <= 1

(***************************************************************************)
(* C15: after initSimulation and any number of steps of any variants,      *)
(* endSimulation frees each of the eight buffers initSimulation allocated  *)
(* exactly once.                                                           *)
(***************************************************************************)
C15_EveryBufferFreedOnce ==
    (life = "TornDown" /\ call.from = "Ready") =>
        \A b \in Allocations : frees[b] = 1

\* endSimulation has run after a coherent and a non-coherent step: both pairs
\* of pointers were exchanged
C15_Witness ==
    /\ life = "TornDown"
    /\ call.from = "Ready"
    /\ dev_pos = bufPos2
    /\ dev_vel1 = bufVel2

\* position of a pass in the running step function (0: not a pass of it)
PassIndex(kernel) ==
    IF stepType \in SIMULATION_TYPE
          /\ \E k \in 1..Len(StepFunction(stepType)) : StepFunction(stepType)[k] = kernel
    THEN CHOOSE k \in 1..Len(StepFunction(stepType)) : StepFunction(stepType)[k] = kernel
    ELSE 0

(***************************************************************************)
(* C16 (as claimed): when a pass fails, the process aborts before the next *)
(* pass starts and the diagnostic names the pass that failed: no later     *)
(* pass is launched or run after the failure.                              *)
(***************************************************************************)
C16_AbortNamesFailedPass ==
    lastError # "none" =>
        /\ life \in {"Aborting", "Exited"} => diag = lastError
        /\ \A k \in 1..Len(stream) :
              PassIndex(stream[k].kernel) <= PassIndex(lastError)
        /\ log.kernel # "none" => PassIndex(log.kernel) <= PassIndex(lastError)

\* the sort of the running grid step was the last pass to run
SortJustRan ==
    /\ life = "Stepping"
    /\ passes # <<>>
    /\ passes[Len(passes)] = "sort_by_key"

(***************************************************************************)
(* C17: after the sort pass of a grid step the keys are ascending, the     *)
(* companion array is a permutation of 0..N-1 and every slot pairs a key   *)
(* with its own value: gridIndices[i] is the cell id of agent              *)
(* particleArrayIndices[i].  (With the pairs before the sort being         *)
(* (cell of agent i, i), this is the same multiset of pairs.)              *)
(***************************************************************************)
C17_SortKeepsPairs ==
    SortJustRan =>
        LET keys == mem[dev_particleGridIndices]
            vals == mem[dev_particleArrayIndices]
        IN  /\ \A i, j \in Idx : i < j => keys[i] <= keys[j]
            /\ \A i \in Idx : vals[i] \in Idx
            /\ \A i, j \in Idx : i # j => vals[i] # vals[j]
            /\ \A i \in Idx : keys[i] = CellOf(mem[dev_pos][vals[i]].v)

\* the sort has run and moved an agent to another slot
C17_Witness ==
    /\ SortJustRan
    /\ \E i \in Idx : mem[dev_particleArrayIndices][i] # i

C19_AgentsStayPaired ==
    AfterStep =>
        /\ \A g \in Idx : \E i \in Idx : ExportedIds.pos[i] = g
        /\ ExportedIds.vel = ExportedIds.pos
        /\ history[Len(history)] = COHERENT =>
              \A s \in Idx :
                  ExportedIds.pos[s] = snap.pos[mem[dev_particleArrayIndices][s]]

\* a step has returned with some agent at another index than its id
C19_Witness ==
    /\ AfterStep
    /\ Len(history) = 2
    /\ \E i \in Idx : ExportedIds.pos[i] # i

\* how often the running updater thread meets its own agent among its
\* candidate neighbours
SelfVisits ==
    LET a == Head(stream).a
        c == Candidates(log'.kernel, RunningThread, a, mem)
        own == IF log'.kernel = "kernUpdateVelNeighborSearchScattered"
               THEN mem[dev_particleArrayIndices][RunningThread]
               ELSE RunningThread
    IN  Cardinality({k \in 1..Len(c) : c[k].p.id = mem[a.pos][own].id})

(***************************************************************************)
(* C20 (as claimed): in every variant an agent visits itself as a          *)
(* candidate neighbour exactly once per step, so the rule 1 and rule 3     *)
(* counts it divides by are at least 1.                                    *)
(***************************************************************************)
C20_SelfVisitedOnce ==
    [][UpdaterRuns =>
        /\ SelfVisits = 1
        /\ RunningSums.rule1Cnt >= 1
        /\ RunningSums.rule3Cnt >= 1]_vars

\* a position of the simulation domain: every coordinate a number of
\* [-scene_scale, scene_scale]
InDomain(v) ==
    /\ ~IsNaN(v)
    /\ \A k \in 1..3 : 0 - scene_scale * Scale <= v[k] /\ v[k] <= scene_scale * Scale

\* the two arrays of the bucket table
BucketTable == {dev_gridCellStartIndices, dev_gridCellEndIndices}

\* every access the kernel that ran last made to the bucket table was to the
\* entry of a cell of the grid
BucketAccessesInBounds ==
    \A e \in log.r \cup log.w : e[1] \in BucketTable => e[2] \in Cells

\* between steps every position yields a cell coordinate of
\* [0, gridSideCount - 1] on every axis
CellCoordsInGrid ==
    Ready =>
        \A i \in Idx : \A k \in 1..3 :
            GridPos(mem[dev_pos][i].v, gridMinimum, gridSideCount)[k]
                \in 0 .. (gridSideCount - 1)

\* the cell ids the indexer has written are ids of cells of the grid
IndexedCellsInGrid ==
    LaunchComplete("kernComputeIndices") =>
        \A i \in Idx : mem[dev_particleGridIndices][i] \in Cells

(***************************************************************************)
(* C21 (as claimed): after initSimulation and any sequence of steps every  *)
(* position coordinate lies in [-scene_scale, scene_scale], so the cell    *)
(* coordinate per axis lies in [0, gridSideCount - 1], the cell ids the    *)
(* indexer and the bucket locator write lie in [0, gridCellCount), and     *)
(* every cell id the updater looks up lies in [0, gridCellCount).          *)
(***************************************************************************)
C21_BucketAccessInBounds ==
    /\ Ready => \A i \in Idx : InDomain(mem[dev_pos][i].v)
    /\ CellCoordsInGrid
    /\ IndexedCellsInGrid
    /\ BucketAccessesInBounds

\* the arguments of the launch whose thread runs
RunningArgs == Head(stream).a

\* the threads of the running launch that have run, the running one included
ThreadsRun == {f[3] : f \in log'.w}

(***************************************************************************)
(* C22: in the velocity update pass of every variant the buffer the        *)
(* workers write is none of the buffers they read, no worker reads an      *)
(* entry of a buffer a worker of the pass writes, and the velocity every   *)
(* worker has stored is the one it would store if it ran after all the     *)
(* others: the new velocity buffer does not depend on the interleaving.    *)
(***************************************************************************)
C22_UpdaterReadsSnapshot ==
    [][UpdaterRuns =>
        /\ RunningArgs.vel2 \notin {RunningArgs.pos, RunningArgs.vel1}
        /\ \A e \in log'.r, f \in log'.w : e[1] # f[1]
        /\ \A j \in ThreadsRun :
              \A w \in Kernel(log'.kernel, j, RunningArgs, mem').w :
                  mem'[w[1]][w[2]] = w[3]]_vars

\* an updater pass has ended in which a worker read the old velocity at an
\* index whose new velocity another worker stored
C22_Witness ==
    /\ log.kernel \in VelocityUpdaters
    /\ LaunchComplete(log.kernel)
    /\ \E e \in log.r, f \in log.w :
          /\ e[3] # f[3]
          /\ e[2] = f[2]
          /\ e[1] \in {bufVel1, bufVel2}

\* memory when the velocity updater of a grid step starts, the sort having
\* left the slots in order p: the passes before the updater have run
BeforeUpdater(type, d, p) ==
    LET prog == StepFunction(type)
        k == CHOOSE n \in 1..Len(prog) : prog[n] \in VelocityUpdaters
    IN  RunStep(type, d, p, mem, SubSeq(prog, 1, k - 1), 1)

\* the agents the scattered updater visits as candidate neighbours on behalf
\* of agent i, the sort having left the slots in order p
VisitedAgents(d, p, i) ==
    LET m == BeforeUpdater(SCATTERED, d, p)
        name == "kernUpdateVelNeighborSearchScattered"
        s == CHOOSE t \in Idx : m[dev_particleArrayIndices][t] = i
        c == Candidates(name, s, ArgsAt(SCATTERED, name, d), m)
    IN  {c[k].p.id : k \in 1..Len(c)}

\* how many slots of a coherent step's result hold the pair x of a position
\* and a velocity
PairCount(res, x) ==
    Cardinality({s \in Idx : <<res.pos[s].v, res.vel[s].v>> = x})

(***************************************************************************)
(* C23 (as claimed): from any state between steps, two grid steps whose    *)
(* sorts leave agents of equal cell id in different orders give every      *)
(* agent the same set of visited neighbours, the same new velocity and the *)
(* same new position in the scattered variant, and the same multiset of    *)
(* (position, velocity) pairs in the coherent variant.                     *)
(***************************************************************************)
C23_SortOrderIrrelevant ==
    Ready =>
        \A d \in DtChoices : \A p, q \in SortOrders(IndexedKeys) :
            /\ \A i \in Idx : VisitedAgents(d, p, i) = VisitedAgents(d, q, i)
            /\ ScatteredResult(d, p).pos = ScatteredResult(d, q).pos
            /\ ScatteredResult(d, p).vel = ScatteredResult(d, q).vel
            /\ \A s \in Idx :
                  LET x == <<CoherentResult(d, p).pos[s].v, CoherentResult(d, p).vel[s].v>>
                  IN  PairCount(CoherentResult(d, p), x) = PairCount(CoherentResult(d, q), x)

\* stepSimulation returns in this step of the model
StepReturns == life = "Stepping" /\ life' = "Ready"

(***************************************************************************)
(* C24: stepSimulation is synchronous.  When the call returns, every       *)
(* device pass of the step has run to its last thread, the position        *)
(* integrator, the last of them, has written every index of the buffer     *)
(* that is the current position buffer and has integrated the velocities   *)
(* of the buffer that is the current velocity buffer; between calls the    *)
(* device has no launch left to run, so a readout or a further step meets  *)
(* no partially executed step.                                             *)
(***************************************************************************)
C24_StepIsSynchronous ==
    /\ [](Ready => (stream = <<>> /\ todo = Idx))
    /\ [][StepReturns =>
            /\ DevicePasses = ClaimedDeviceOrder(stepType)
            /\ LaunchComplete("kernUpdatePos")
            /\ \A i \in Idx :
                  /\ \E f \in log.w : f[1] = dev_pos' /\ f[2] = i
                  /\ \E e \in log.r : e[1] = dev_vel1' /\ e[2] = i]_vars

\* a readout made after a coherent step has returned
C24_Witness ==
    /\ AfterStep
    /\ history[Len(history)] = COHERENT
    /\ call.op = "copyBoidsToVBO"

====
